---- MODULE Spec2Model ----
(***************************************************************************)
(* Host agent orchestrator: discovery of remote agents, session            *)
(* get-or-create in stream, delegation by send_message (agent resolution,  *)
(* id management, text extraction) and the verify_response gate.           *)
(*                                                                         *)
(* Python strings that the code compares, lower-cases, searches or joins   *)
(* are sequences of one-character strings, so that lower(), "in" and       *)
(* join() are computed and not assumed.                                    *)
(***************************************************************************)
EXTENDS Integers, Sequences, FiniteSets, TLC

VARIABLES
    remote_agent_connections, \* HostAgent.remote_agent_connections: insertion-ordered dict, as a sequence of [name, url]
    cards,                    \* HostAgent.cards: insertion-ordered dict, as a sequence of [name, url]
    agents,                   \* HostAgent.agents: the summary text placed in the instruction
    initPc,                   \* position of _async_init_components: index of the next address, or "ready"
    sessions,                 \* InMemorySessionService: session id -> NoSession or [state]
    createCalls,              \* number of create_session executions per session id
    turns,                    \* one record per stream() call
    lastCall,                 \* what the last send_message call did and returned
    firstCall,                \* what the first send_message call did and returned (kept by LoggedSendMessage only)
    probes,                   \* what get_agent_card() did for each address probed so far
    requests,                 \* the requests handed to client.send_message, in order
    uuidCounter,              \* number of uuid4() values drawn so far
    vcall                     \* the last verify_response call: its arguments, backend outcome and result

vars == <<remote_agent_connections, cards, agents, initPc, sessions,
          createCalls, turns, lastCall, firstCall, probes, requests, uuidCounter, vcall>>

---------------------------------------------------------------------------
(* Bounds of the model *)

\* Number of stream() calls (turns) in a behaviour.
MaxTurns == 2
\* Number of tool calls the model makes in one turn.
MaxToolCalls == 2
\* send_message calls of one turn when the first call is kept for comparison
MaxLoggedCalls == 3

---------------------------------------------------------------------------
(* Python strings as character sequences *)

\* str.lower() on one character (the upper-case letters that the names of the model use)
LowerChar(c) ==
    CASE c = "A" -> "a"
      [] c = "B" -> "b"
      [] c = "I" -> "i"
      [] c = "W" -> "w"
      [] OTHER   -> c

\* str.lower()
Lower(s) == [i \in 1..Len(s) |-> LowerChar(s[i])]

\* Python's "a in b" on strings: a is a contiguous substring of b
IsSubstr(a, b) ==
    \E i \in 0..(Len(b) - Len(a)) : SubSeq(b, i + 1, i + Len(a)) = a

\* sep.join(parts)
RECURSIVE Join(_, _)
Join(sep, parts) ==
    IF Len(parts) = 0 THEN <<>>
    ELSE IF Len(parts) = 1 THEN parts[1]
    ELSE parts[1] \o sep \o Join(sep, Tail(parts))

S_Invoices_Agent == <<"I", "n", "v", "o", "i", "c", "e", "s", "_", "A", "g", "e", "n", "t">>
S_InvoiceBot == <<"I", "n", "v", "o", "i", "c", "e", "B", "o", "t">>
S_Invoices == <<"I", "n", "v", "o", "i", "c", "e", "s">>
S_Imports_Agent == <<"I", "m", "p", "o", "r", "t", "s", "_", "A", "g", "e", "n", "t">>
S_invoices_agent == <<"i", "n", "v", "o", "i", "c", "e", "s", "_", "a", "g", "e", "n", "t">>
S_Weather == <<"W", "e", "a", "t", "h", "e", "r">>
S_Empty == <<>>
S_Fraud == <<"f", "r", "a", "u", "d">>
S_Violence == <<"v", "i", "o", "l", "e", "n", "c", "e">>

S_NoResponse == <<"N", "o", " ", "r", "e", "s", "p", "o", "n", "s", "e", " ", "f", "r", "o", "m", " ", "a", "g", "e", "n", "t">>
S_NotFoundHead == <<"E", "r", "r", "o", "r", ":", " ", "A", "g", "e", "n", "t", " ", "'">>
S_NotFoundMid == <<"'", " ", "n", "o", "t", " ", "f", "o", "u", "n", "d", ".", " ", "A", "v", "a", "i", "l", "a", "b", "l", "e", " ", "a", "g", "e", "n", "t", "s", ":", " ">>
S_CommaSpace == <<",", " ">>
S_InvalidResponse == <<"E", "r", "r", "o", "r", ":", " ", "I", "n", "v", "a", "l", "i", "d", " ", "r", "e", "s", "p", "o", "n", "s", "e", " ", "f", "r", "o", "m", " ", "a", "g", "e", "n", "t", " ">>
S_ErrorCommunicating == <<"E", "r", "r", "o", "r", " ", "c", "o", "m", "m", "u", "n", "i", "c", "a", "t", "i", "n", "g", " ", "w", "i", "t", "h", " ">>
S_ColonSpace == <<":", " ">>
S_ExtractedData == <<"E", "x", "t", "r", "a", "c", "t", "e", "d", " ", "d", "a", "t", "a", ":", "\n">>
S_Newline == <<"\n">>
S_NoAgentsFound == <<"N", "o", " ", "a", "g", "e", "n", "t", "s", " ", "f", "o", "u", "n", "d">>

---------------------------------------------------------------------------
(* verify_response (verification_agent.py) *)

\* A key that a dict does not hold; dict.get(key) then gives None.
Absent == "absent"

\* JSON values the backend may put in a field, after json.loads.
\* "'false'" is the JSON string "false", the others are the JSON literals.
JsonValues == {"true", "false", "null", "0", "'false'"}

\* Python truthiness of a JSON value (None, False, 0 are falsy; a non-empty string is truthy)
PyTruthy(v) == v \in {"true", "'false'"}

\* result.get(key): the value, or None when the key is absent
DictGet(v) == IF v = Absent THEN "null" ELSE v

\* result.get(key, True)
DictGetDefaultTrue(v) == IF v = Absent THEN "true" ELSE v

EmojiAlert == "emoji_rotating_light"
EmojiWarning == "emoji_warning"
EmojiVerified == "emoji_check_mark"

ExplanationUnavailable == "Verification system unavailable, proceeding with caution"

\* What the try block of verify_response can meet:
\*   client_error : get_verification_client() raises (Client(...) cannot be built)
\*   unreachable  : generate_content raises (transport failure)
\*   no_text      : response.text is None, json.loads raises TypeError
\*   bad_json     : response.text is no JSON, json.loads raises JSONDecodeError
\*   non_object   : response.text is JSON but no object; result[...] = ... raises TypeError
\*   object       : response.text is a JSON object
BackendKinds == {"client_error", "unreachable", "no_text", "bad_json", "non_object", "object"}

\* The exception the try block raises on a backend outcome, "none" when it completes
ExceptionInTry(b) ==
    CASE b.kind = "client_error" -> "ValueError"
      [] b.kind = "unreachable"  -> "ConnectError"
      [] b.kind = "no_text"      -> "TypeError"
      [] b.kind = "bad_json"     -> "JSONDecodeError"
      [] b.kind = "non_object"   -> "TypeError"
      [] OTHER                   -> "none"

CatchesOnlyJSONDecodeError(exc) == exc = "JSONDecodeError"

\* except Exception as e: every exception of the try block is an Exception
CatchesException(exc) == exc \in {"ValueError", "ConnectError", "TypeError", "JSONDecodeError"}

\* the "compatibility fields" and the emoji added to the parsed object
ParsedVerdict(obj) ==
    [ is_relevant     |-> obj.is_relevant,
      is_safe         |-> obj.is_safe,
      risk_level      |-> obj.risk_level,
      detected_issues |-> obj.detected_issues,
      explanation     |-> obj.explanation,
      security_alert  |-> ~PyTruthy(DictGetDefaultTrue(obj.is_safe)),
      status          |-> IF PyTruthy(DictGet(obj.is_relevant)) /\ PyTruthy(DictGet(obj.is_safe))
                          THEN "relevant" ELSE "security_risk",
      emoji           |-> IF ~PyTruthy(DictGet(obj.is_safe)) THEN EmojiAlert
                          ELSE IF ~PyTruthy(DictGet(obj.is_relevant)) THEN EmojiWarning
                          ELSE EmojiVerified ]

\* the "safe defaults" returned by the except branch
FailOpenVerdict ==
    [ is_relevant     |-> "true",
      is_safe         |-> "true",
      risk_level      |-> "none",
      detected_issues |-> <<>>,
      explanation     |-> ExplanationUnavailable,
      security_alert  |-> FALSE,
      status          |-> "relevant",
      emoji           |-> EmojiVerified ]

NoVerdict ==
    [ is_relevant     |-> Absent,
      is_safe         |-> Absent,
      risk_level      |-> Absent,
      detected_issues |-> <<>>,
      explanation     |-> Absent,
      security_alert  |-> FALSE,
      status          |-> Absent,
      emoji           |-> Absent ]

\* verify_response whose except branch prints nothing
verify_response_silent(b) ==
    LET exc == ExceptionInTry(b) IN
    IF exc = "none"
    THEN [raised |-> FALSE, status |-> "success", verification |-> ParsedVerdict(b.obj),
          printed |-> <<>>]
    ELSE IF CatchesException(exc)
    THEN [raised |-> FALSE, status |-> "success", verification |-> FailOpenVerdict,
          printed |-> <<>>]
    ELSE [raised |-> TRUE, status |-> Absent, verification |-> NoVerdict,
          printed |-> <<>>]

\* verify_response as a function of what the backend does: whether it raises to
\* its caller, the returned dict and what it printed
verify_response(b) ==
    LET exc == ExceptionInTry(b) IN
    IF exc = "none"
    THEN [raised |-> FALSE, status |-> "success", verification |-> ParsedVerdict(b.obj),
          printed |-> <<>>]
    ELSE IF CatchesException(exc)
    THEN [raised |-> FALSE, status |-> "success", verification |-> FailOpenVerdict,
          printed |-> <<"Verification error", exc>>]
    ELSE [raised |-> TRUE, status |-> Absent, verification |-> NoVerdict,
          printed |-> <<>>]

IssueLists == {<<>>, <<S_Fraud>>, <<S_Fraud, S_Violence>>}

\* JSON objects the backend can return
BackendObjects ==
    [ is_relevant     : JsonValues \cup {Absent},
      is_safe         : JsonValues \cup {Absent},
      risk_level      : {"none", "high"},
      detected_issues : IssueLists,
      explanation     : {"Brief explanation", ExplanationUnavailable} ]

EmptyObject ==
    [ is_relevant |-> Absent, is_safe |-> Absent, risk_level |-> "none",
      detected_issues |-> <<>>, explanation |-> "Brief explanation" ]

BackendOutcomes ==
    { [kind |-> k, obj |-> EmptyObject] : k \in BackendKinds \ {"object"} }
    \cup { [kind |-> "object", obj |-> o] : o \in BackendObjects }

VerifyArgs ==
    [ original_query : {"q1"}, agent_response : {"A", "B"}, expected_topic : {"imports", "invoices"} ]

VcallIdle ==
    [ pc |-> "idle",
      args |-> [original_query |-> "q1", agent_response |-> "A", expected_topic |-> "imports"],
      backend |-> [kind |-> "unreachable", obj |-> EmptyObject],
      result |-> [raised |-> FALSE, status |-> Absent, verification |-> NoVerdict, printed |-> <<>>] ]

\* One call of verify_response with the given arguments, on the given backend outcome
VerifyResponseCall ==
    \E a \in VerifyArgs, b \in BackendOutcomes :
        /\ vcall' = [pc |-> "returned", args |-> a, backend |-> b, result |-> verify_response(b)]
        /\ UNCHANGED <<remote_agent_connections, cards, agents, initPc, sessions,
                       createCalls, turns, lastCall, requests, uuidCounter, firstCall, probes>>

---------------------------------------------------------------------------
(* create_security_alert (orchestration_tools.py) *)

S_IssuesDetected == <<"\n", "I", "s", "s", "u", "e", "s", " ", "d", "e", "t", "e", "c", "t", "e", "d", ":", " ">>
S_AlertHead ==
    << "<rotating_light>", " ", "*", "*", "S", "E", "C", "U", "R", "I", "T", "Y", " ", "A", "L", "E",
       "R", "T", "*", "*", " ", "<rotating_light>", "\n", "\n", "I", " ", "c", "a", "n", "n", "o", "t",
       " ", "p", "r", "o", "c", "e", "s", "s", " ", "t", "h", "i", "s", " ", "r", "e",
       "q", "u", "e", "s", "t", " ", "b", "e", "c", "a", "u", "s", "e", " ", "i", "t",
       " ", "c", "o", "n", "t", "a", "i", "n", "s", " ", "c", "o", "n", "t", "e", "n",
       "t", " ", "o", "u", "t", "s", "i", "d", "e", " ", "m", "y", " ", "s", "c", "o",
       "p", "e", " ", "o", "r", " ", "p", "o", "t", "e", "n", "t", "i", "a", "l", "l",
       "y", " ", "u", "n", "s", "a", "f", "e", " ", "m", "a", "t", "e", "r", "i", "a",
       "l", ".", "\n" >>
S_AlertTail ==
    << "\n", "P", "l", "e", "a", "s", "e", " ", "r", "e", "p", "h", "r", "a", "s", "e",
       " ", "y", "o", "u", "r", " ", "q", "u", "e", "r", "y", " ", "f", "o", "c", "u",
       "s", "i", "n", "g", " ", "o", "n", " ", "t", "o", "p", "i", "c", "s", " ", "r",
       "e", "l", "a", "t", "e", "d", " ", "t", "o", ":", "\n", "<bullet>", " ", "I", "m", "p",
       "o", "r", "t", "s", " ", "a", "n", "d", " ", "c", "u", "s", "t", "o", "m", "s",
       " ", "p", "r", "o", "c", "e", "s", "s", "e", "s", " ", "i", "n", " ", "C", "o",
       "l", "o", "m", "b", "i", "a", "\n", "<bullet>", " ", "I", "n", "f", "o", "r", "m", "a",
       "t", "i", "o", "n", " ", "a", "b", "o", "u", "t", " ", "i", "n", "v", "o", "i",
       "c", "e", "s", " ", "a", "n", "d", " ", "c", "o", "m", "m", "e", "r", "c", "i",
       "a", "l", " ", "d", "o", "c", "u", "m", "e", "n", "t", "s", "\n" >>

\* the alert text for a list of detected issues (None and [] give no issue line)
create_security_alert(detected_issues) ==
    S_AlertHead
    \o (IF Len(detected_issues) > 0
        THEN S_IssuesDetected \o Join(S_CommaSpace, detected_issues) \o S_Newline
        ELSE <<>>)
    \o S_AlertTail

---------------------------------------------------------------------------
(* Discovery: HostAgent.__init__ and _async_init_components (agent.py) *)

\* friend_agent_urls holds two addresses
NumAddresses == 2

Addresses == <<"http://localhost:8005", "http://localhost:8006">>

S_JsonNameHead == <<"{", "\"", "n", "a", "m", "e", "\"", ":", " ", "\"">>
S_JsonDescHead == <<"\"", ",", " ", "\"", "d", "e", "s", "c", "r", "i", "p", "t", "i", "o", "n", "\"", ":", " ", "\"">>
S_JsonTail == <<"\"", "}">>
S_Description == <<"d">>

\* keys of an insertion-ordered dict, in iteration order
Keys(d) == [i \in 1..Len(d) |-> d[i].name]

HasKey(d, k) == \E i \in 1..Len(d) : d[i].name = k

\* d[k]
Lookup(d, k) == d[CHOOSE i \in 1..Len(d) : d[i].name = k]

\* d[k] = v: an existing key keeps its position, a new key goes last
DictSet(d, k, v) ==
    IF HasKey(d, k)
    THEN [i \in 1..Len(d) |-> IF d[i].name = k THEN v ELSE d[i]]
    ELSE Append(d, v)

\* json.dumps({"name": card.name, "description": card.description})
CardJson(card) ==
    S_JsonNameHead \o card.name \o S_JsonDescHead \o card.description \o S_JsonTail

\* the join alone, without the marker for an empty list
AgentsSummaryJoinOnly(cs) ==
    Join(S_Newline, [i \in 1..Len(cs) |-> CardJson(cs[i])])

\* self.agents = "\n".join(agent_info) if agent_info else "No agents found"
AgentsSummary(cs) ==
    IF Len(cs) > 0
    THEN Join(S_Newline, [i \in 1..Len(cs) |-> CardJson(cs[i])])
    ELSE S_NoAgentsFound

\* What get_agent_card() can do for one address: return a card, fail to connect,
\* or raise another exception (timeout, malformed descriptor)
ProbeOutcomes(names) ==
    { [kind |-> "card", name |-> n] : n \in names }
    \cup { [kind |-> "connect_error", name |-> S_Empty],
           [kind |-> "exception", name |-> S_Empty] }

\* An iteration of the for loop starts: get_agent_card() is awaited for address i.
\* The loop is sequential: iteration i starts when the one before it has ended.
StartProbe(i) ==
    /\ initPc.phase = "probing"
    /\ ~initPc.pending
    /\ initPc.idx = i
    /\ i <= NumAddresses
    /\ initPc' = [initPc EXCEPT !.pending = TRUE]
    /\ UNCHANGED <<remote_agent_connections, cards, agents, sessions, createCalls, turns,
                   lastCall, firstCall, probes, requests, uuidCounter, vcall>>

\* The awaited get_agent_card() ends: the card is registered, or the exception is
\* caught and printed; the loop goes on to the next address.
FinishProbe(names) ==
    /\ initPc.phase = "probing"
    /\ initPc.pending
    /\ \E o \in ProbeOutcomes(names) :
         LET address == Addresses[initPc.idx]
             entry == [name |-> o.name, url |-> address, description |-> S_Description]
         IN /\ IF o.kind = "card"
               THEN /\ remote_agent_connections' = DictSet(remote_agent_connections, o.name, entry)
                    /\ cards' = DictSet(cards, o.name, entry)
               ELSE UNCHANGED <<remote_agent_connections, cards>>
            /\ probes' = Append(probes, [address |-> address, kind |-> o.kind, name |-> o.name])
    /\ initPc' = [initPc EXCEPT !.idx = @ + 1, !.pending = FALSE]
    /\ UNCHANGED <<agents, sessions, createCalls, turns, lastCall, firstCall, requests,
                   uuidCounter, vcall>>

\* After the loop: the summary of the registered cards
FinishInit ==
    /\ initPc.phase = "probing"
    /\ ~initPc.pending
    /\ initPc.idx = NumAddresses + 1
    /\ agents' = AgentsSummary(cards)
    /\ initPc' = [phase |-> "ready", idx |-> 0, pending |-> FALSE]
    /\ UNCHANGED <<remote_agent_connections, cards, sessions, createCalls, turns,
                   lastCall, requests, uuidCounter, vcall, firstCall, probes>>

S_StandaloneMode ==
    << "N", "o", " ", "r", "e", "m", "o", "t", "e", " ", "a", "g", "e", "n", "t", "s", " ", "a", "v",
       "a", "i", "l", "a", "b", "l", "e", " ", "(", "r", "u", "n", "n", "i", "n", "g", " ", "i", "n",
       " ", "s", "t", "a", "n", "d", "a", "l", "o", "n", "e", " ", "m", "o", "d", "e", ")" >>
S_EventLoopConflict ==
    << "E", "v", "e", "n", "t", " ", "l", "o", "o", "p", " ", "c", "o", "n", "f", "l", "i", "c", "t",
       " ", "-", " ", "s", "t", "a", "n", "d", "a", "l", "o", "n", "e", " ", "m", "o", "d", "e" >>

\* _get_initialized_host_agent_sync: HostAgent.create or asyncio.run raises before
\* any address is probed; a new HostAgent() with no connections is used, its
\* summary set to the text of the branch taken.
StandaloneFallback ==
    /\ initPc.phase = "probing"
    /\ ~initPc.pending
    /\ initPc.idx = 1
    /\ \E marker \in {S_StandaloneMode, S_EventLoopConflict} : agents' = marker
    /\ remote_agent_connections' = <<>>
    /\ cards' = <<>>
    /\ initPc' = [phase |-> "ready", idx |-> 0, pending |-> FALSE]
    /\ UNCHANGED <<sessions, createCalls, turns, lastCall, firstCall, probes, requests,
                   uuidCounter, vcall>>

---------------------------------------------------------------------------
(* send_message (agent.py): agent resolution *)

\* a looser match: the lower-cased names share their first four characters
FuzzyMatchCommonPrefix(agent_name, card_name) ==
    \/ IsSubstr(Lower(agent_name), Lower(card_name))
    \/ IsSubstr(Lower(card_name), Lower(agent_name))
    \/ /\ Len(agent_name) >= 4
       /\ Len(card_name) >= 4
       /\ SubSeq(Lower(agent_name), 1, 4) = SubSeq(Lower(card_name), 1, 4)

\* the condition of the partial-match loop for one directory key
FuzzyMatch(agent_name, card_name) ==
    \/ IsSubstr(Lower(agent_name), Lower(card_name))
    \/ IsSubstr(Lower(card_name), Lower(agent_name))

\* a loop that falls back to the first key when no key matches
FirstFuzzyOrFirstKey(agent_name, d) ==
    LET hits == { i \in 1..Len(d) : FuzzyMatch(agent_name, d[i].name) }
    IN IF Len(d) = 0 THEN [found |-> FALSE, name |-> agent_name]
       ELSE IF hits = {} THEN [found |-> TRUE, name |-> d[1].name]
       ELSE [found |-> TRUE, name |-> d[CHOOSE i \in hits : \A j \in hits : i <= j].name]

\* the first key, in iteration order, that the loop matches
FirstFuzzy(agent_name, d) ==
    LET hits == { i \in 1..Len(d) : FuzzyMatch(agent_name, d[i].name) }
    IN IF hits = {} THEN [found |-> FALSE, name |-> agent_name]
       ELSE [found |-> TRUE, name |-> d[CHOOSE i \in hits : \A j \in hits : i <= j].name]

ResolveFuzzyOnly(agent_name, d) == FirstFuzzy(agent_name, d)

\* a resolution that remembers: among the keys that match, it takes them in turn,
\* by the number of requests sent so far
ResolveInTurn(agent_name, d) ==
    LET hits == SelectSeq(Keys(d), LAMBDA k : FuzzyMatch(agent_name, k)) IN
    IF HasKey(d, agent_name)
    THEN [found |-> TRUE, name |-> agent_name]
    ELSE IF Len(hits) = 0 THEN [found |-> FALSE, name |-> agent_name]
    ELSE [found |-> TRUE, name |-> hits[(Len(requests) % Len(hits)) + 1]]

\* agent_name after the resolution block, and whether an agent was found
Resolve(agent_name, d) ==
    IF HasKey(d, agent_name)
    THEN [found |-> TRUE, name |-> agent_name]
    ELSE FirstFuzzy(agent_name, d)

\* f"Error: Agent '{agent_name}' not found. Available agents: {', '.join(available_agents)}"
NotFoundError(agent_name, d) ==
    S_NotFoundHead \o agent_name \o S_NotFoundMid \o Join(S_CommaSpace, Keys(d))

---------------------------------------------------------------------------
(* send_message (agent.py): text extraction *)

\* a key the payload does not hold, for text-valued keys
NoText == <<"<absent>">>

\* truthiness of part.get("text") and the like: present and not empty
TextTruthy(s) == s # NoText /\ Len(s) > 0

\* part.get("data") is truthy: the key is there and holds no empty dict
DataTruthy(data) == data = "{k: 1}"

\* json.dumps(part["data"], indent=2, ensure_ascii=False) of the data value {"k": 1}
DumpData(data) == <<"{", "\n", " ", " ", "\"", "k", "\"", ":", " ", "1", "\n", "}">>

\* the fragments one artifact part contributes
PartFragments(part) ==
    IF part.ptype = "dict"
    THEN IF TextTruthy(part.text) THEN <<part.text>>
         ELSE IF DataTruthy(part.data) THEN <<S_ExtractedData \o DumpData(part.data)>>
         ELSE IF part.kind = "text" /\ TextTruthy(part.text) THEN <<part.text>>
         ELSE <<>>
    ELSE IF part.ptype = "str" THEN <<part.text>>
    ELSE <<>>

RECURSIVE PartsFragments(_)
PartsFragments(parts) ==
    IF Len(parts) = 0 THEN <<>>
    ELSE PartFragments(parts[1]) \o PartsFragments(Tail(parts))

RECURSIVE ArtifactsFragments(_)
ArtifactsFragments(artifacts) ==
    IF Len(artifacts) = 0 THEN <<>>
    ELSE PartsFragments(artifacts[1]) \o ArtifactsFragments(Tail(artifacts))

\* texts of the dicts of a list that have a truthy "text"
RECURSIVE TextsOf(_)
TextsOf(items) ==
    IF Len(items) = 0 THEN <<>>
    ELSE (IF TextTruthy(items[1]) THEN <<items[1]>> ELSE <<>>) \o TextsOf(Tail(items))

\* the scans in another order: result.text before the artifacts
FragmentsTextFirst(result) ==
    (IF TextTruthy(result.text) THEN <<result.text>> ELSE <<>>)
    \o ArtifactsFragments(result.artifacts)
    \o TextsOf(result.messages)
    \o TextsOf(result.status_parts)

\* the list texts after the four scans, in the order of the code
Fragments(result) ==
    ArtifactsFragments(result.artifacts)
    \o (IF TextTruthy(result.text) THEN <<result.text>> ELSE <<>>)
    \o TextsOf(result.messages)
    \o TextsOf(result.status_parts)

\* response_text = "\n".join(texts) if texts else "No response from agent"
Extract(result) ==
    LET texts == Fragments(result)
    IN IF Len(texts) > 0 THEN Join(S_Newline, texts) ELSE S_NoResponse
---------------------------------------------------------------------------
(* send_message (agent.py): the whole call *)

\* tool_context.state as created by stream: {} (0 stands for a key that is not set)
EmptyState == [task_id |-> 0, context_id |-> 0]

\* state.get(key, default)
StateGet(v, default) == IF v # 0 THEN v ELSE default

NoRequest == [session |-> "none", agent |-> S_Empty, url |-> "none",
              messageId |-> 0, taskId |-> 0, contextId |-> 0]

EmptyResult == [artifacts |-> <<>>, text |-> NoText, messages |-> <<>>, status_parts |-> <<>>]

\* What client.send_message(message_request) can do:
\*   raise          : the transport raises (str(e) is msg)
\*   error_envelope : root is no SendMessageSuccessResponse
\*   not_task       : root.result is no Task
\*   task           : a success envelope carrying a task, dumped to json_content["result"]
RaiseOutcome == [kind |-> "raise", exc |-> "ConnectTimeout", msg |-> <<"t", "i", "m", "e", "o", "u", "t">>, result |-> EmptyResult]
ErrorEnvelopeOutcome == [kind |-> "error_envelope", exc |-> "none", msg |-> S_Empty, result |-> EmptyResult]
NotTaskOutcome == [kind |-> "not_task", exc |-> "none", msg |-> S_Empty, result |-> EmptyResult]
TaskOutcome(result) == [kind |-> "task", exc |-> "none", msg |-> S_Empty, result |-> result]

SendCatchesOnlyConnectError(exc) == exc = "ConnectError"

\* except Exception as e: of send_message
SendCatches(exc) == exc \in {"ConnectError", "ConnectTimeout"}

\* the string send_message returns once the request went to the client
AfterSend(agent_name, outcome) ==
    CASE outcome.kind = "raise" ->
           S_ErrorCommunicating \o agent_name \o S_ColonSpace \o outcome.msg
      [] outcome.kind \in {"error_envelope", "not_task"} ->
           S_InvalidResponse \o agent_name
      [] OTHER -> Extract(outcome.result)

\* send_message without the not-found return: the lookup of the client raises
\* KeyError for a name that is no key
SendMessageResultNoGuard(agent_name, sid, state, u1, u2, u3, outcome) ==
    LET r == Resolve(agent_name, remote_agent_connections) IN
    IF ~r.found
    THEN [ requested |-> agent_name, found |-> FALSE, resolved |-> r.name, sent |-> FALSE,
           request |-> NoRequest, fromAgent |-> FALSE, raised |-> TRUE,
           outcome |-> "none", payload |-> EmptyResult,
           result |-> S_Empty ]
    ELSE LET client == Lookup(remote_agent_connections, r.name)
             task_id == StateGet(state.task_id, u1)
             context_id == StateGet(state.context_id, u2)
             message_id == u3
         IN [ requested |-> agent_name, found |-> TRUE, resolved |-> r.name, sent |-> TRUE,
              request |-> [session |-> sid, agent |-> client.name, url |-> client.url,
                           messageId |-> message_id, taskId |-> task_id,
                           contextId |-> context_id],
              fromAgent |-> outcome.kind = "task",
              raised |-> outcome.kind = "raise" /\ ~SendCatches(outcome.exc),
              outcome |-> outcome.kind, payload |-> outcome.result,
              result |-> IF outcome.kind = "raise" /\ ~SendCatches(outcome.exc)
                         THEN S_Empty ELSE AfterSend(r.name, outcome) ]

\* send_message(agent_name, task, tool_context) in session sid, given the three
\* uuid4() values it draws and what the remote agent does
SendMessageResult(agent_name, sid, state, u1, u2, u3, outcome) ==
    LET r == Resolve(agent_name, remote_agent_connections) IN
    IF ~r.found
    THEN [ requested |-> agent_name, found |-> FALSE, resolved |-> r.name, sent |-> FALSE,
           request |-> NoRequest, fromAgent |-> FALSE, raised |-> FALSE,
           outcome |-> "none", payload |-> EmptyResult,
           result |-> NotFoundError(agent_name, remote_agent_connections) ]
    ELSE LET client == Lookup(remote_agent_connections, r.name)
             task_id == StateGet(state.task_id, u1)
             context_id == StateGet(state.context_id, u2)
             message_id == u3
         IN [ requested |-> agent_name, found |-> TRUE, resolved |-> r.name, sent |-> TRUE,
              request |-> [session |-> sid, agent |-> client.name, url |-> client.url,
                           messageId |-> message_id, taskId |-> task_id,
                           contextId |-> context_id],
              fromAgent |-> outcome.kind = "task",
              raised |-> outcome.kind = "raise" /\ ~SendCatches(outcome.exc),
              outcome |-> outcome.kind, payload |-> outcome.result,
              result |-> IF outcome.kind = "raise" /\ ~SendCatches(outcome.exc)
                         THEN S_Empty ELSE AfterSend(r.name, outcome) ]

NoCall ==
    [ requested |-> S_Empty, found |-> FALSE, resolved |-> S_Empty, sent |-> FALSE,
      request |-> NoRequest, fromAgent |-> FALSE, raised |-> FALSE,
      outcome |-> "none", payload |-> EmptyResult, result |-> S_Empty ]

---------------------------------------------------------------------------
(* stream (agent.py) and the runner's loop *)

Turns == 1..MaxTurns
SessionIds == {"s1", "s2"}

NoSession == [exists |-> FALSE, state |-> EmptyState]

NoTurnVerdict == [answer |-> NoText, verification |-> NoVerdict]

IdleTurn ==
    [ pc |-> "idle", sid |-> "none", flags |-> <<>>, content |-> NoText,
      got |-> {}, verified |-> {}, verdict |-> NoTurnVerdict, calls |-> 0 ]

\* await get_session(...); if session is None: ... (the test follows the await at once)
GetSession(t, sids) ==
    /\ initPc.phase = "ready"
    /\ turns[t].pc = "idle"
    /\ \A u \in Turns : u < t => turns[u].pc # "idle"
    /\ \E sid \in sids :
         turns' = [turns EXCEPT ![t].sid = sid,
                                ![t].pc = IF sessions[sid].exists THEN "running" ELSE "create"]
    /\ UNCHANGED <<remote_agent_connections, cards, agents, initPc, sessions, createCalls,
                   lastCall, requests, uuidCounter, vcall, firstCall, probes>>

\* await create_session(..., state={}, session_id=session_id). When the id exists by
\* now, the service either replaces the session or raises, depending on its version.
CreateSession(t) ==
    /\ turns[t].pc = "create"
    /\ LET sid == turns[t].sid IN
       /\ createCalls' = [createCalls EXCEPT ![sid] = @ + 1]
       /\ \/ /\ sessions' = [sessions EXCEPT ![sid] = [exists |-> TRUE, state |-> EmptyState]]
             /\ turns' = [turns EXCEPT ![t].pc = "running"]
          \/ /\ sessions[sid].exists
             /\ UNCHANGED sessions
             /\ turns' = [turns EXCEPT ![t].pc = "raised"]
    /\ UNCHANGED <<remote_agent_connections, cards, agents, initPc, lastCall, requests,
                   uuidCounter, vcall, firstCall, probes>>

\* send_message that stores the connection it resolved fuzzily under the
\* requested name as well
SendMessageStepCachingAlias(t, names, outcomes, cap) ==
    /\ turns[t].pc = "running"
    /\ turns[t].calls < cap
    /\ \E agent_name \in names, outcome \in outcomes :
         LET sid == turns[t].sid
             c == SendMessageResult(agent_name, sid, sessions[sid].state,
                                    uuidCounter + 1, uuidCounter + 2, uuidCounter + 3, outcome)
         IN /\ lastCall' = c
            /\ requests' = IF c.sent THEN Append(requests, c.request) ELSE requests
            /\ uuidCounter' = IF c.found THEN uuidCounter + 3 ELSE uuidCounter
            /\ turns' = [turns EXCEPT ![t].calls = @ + 1,
                                      ![t].flags = IF c.raised THEN @ ELSE Append(@, FALSE),
                                      ![t].got = IF c.fromAgent THEN @ \cup {c.result} ELSE @,
                                      ![t].pc = IF c.raised THEN "raised" ELSE @]
    /\ remote_agent_connections' =
          IF lastCall'.found /\ lastCall'.requested # lastCall'.resolved
          THEN DictSet(remote_agent_connections, lastCall'.requested,
                       Lookup(remote_agent_connections, lastCall'.resolved))
          ELSE remote_agent_connections
    /\ UNCHANGED <<cards, agents, initPc, sessions, createCalls, probes, vcall>>

\* The model calls the send_message tool; the runner's event for it is not final,
\* so stream yields a progress event.
SendMessageStepUpTo(t, names, outcomes, cap) ==
    /\ turns[t].pc = "running"
    /\ turns[t].calls < cap
    /\ \E agent_name \in names, outcome \in outcomes :
         LET sid == turns[t].sid
             c == SendMessageResult(agent_name, sid, sessions[sid].state,
                                    uuidCounter + 1, uuidCounter + 2, uuidCounter + 3, outcome)
         IN /\ lastCall' = c
            /\ requests' = IF c.sent THEN Append(requests, c.request) ELSE requests
            /\ uuidCounter' = IF c.found THEN uuidCounter + 3 ELSE uuidCounter
            /\ turns' = [turns EXCEPT ![t].calls = @ + 1,
                                      ![t].flags = IF c.raised THEN @ ELSE Append(@, FALSE),
                                      ![t].got = IF c.fromAgent THEN @ \cup {c.result} ELSE @,
                                      ![t].pc = IF c.raised THEN "raised" ELSE @]
    /\ UNCHANGED <<remote_agent_connections, cards, agents, initPc, sessions, createCalls,
                   probes, vcall>>

SendMessageStep(t, names, outcomes) == SendMessageStepUpTo(t, names, outcomes, MaxToolCalls)

ToolSendMessage(t, names, outcomes) ==
    /\ SendMessageStep(t, names, outcomes)
    /\ UNCHANGED firstCall

\* The same step, observed: the first call of the behaviour is kept beside the last
LoggedSendMessage(t, names, outcomes) ==
    /\ SendMessageStepUpTo(t, names, outcomes, MaxLoggedCalls)
    /\ firstCall' = IF firstCall = NoCall THEN lastCall' ELSE firstCall

\* The model calls the verify_response tool on an answer it got; not a final event either.
ToolVerifyResponse(t, backends) ==
    /\ turns[t].pc = "running"
    /\ turns[t].calls < MaxToolCalls
    /\ \E a \in turns[t].got, b \in backends :
         LET v == verify_response(b) IN
         turns' = [turns EXCEPT ![t].calls = @ + 1,
                                ![t].flags = Append(@, FALSE),
                                ![t].verified = IF v.raised THEN @ ELSE @ \cup {a},
                                ![t].verdict = [answer |-> a, verification |-> v.verification],
                                ![t].pc = IF v.raised THEN "raised" ELSE @]
    /\ UNCHANGED <<remote_agent_connections, cards, agents, initPc, sessions, createCalls,
                   lastCall, requests, uuidCounter, vcall, firstCall, probes>>

S_Warning == <<"W", "a", "r", "n", "i", "n", "g", ":", " ">>
S_Other == <<"H", "o", "w", " ", "c", "a", "n", " ", "I", " ", "h", "e", "l", "p", "?">>

\* event.content.parts of a final event the model may write: an answer as it came, an
\* answer under a warning, the alert for the issues of the verdict, another text, a
\* first part without text followed by an answer, or no parts at all
FinalParts(t) ==
    { <<a>> : a \in turns[t].got }
    \cup { <<S_Warning \o a>> : a \in turns[t].got }
    \cup { <<NoText, a>> : a \in turns[t].got }
    \cup { <<create_security_alert(turns[t].verdict.verification.detected_issues)>>,
           <<S_Other>>, <<>> }

\* response = "" unless parts[0].text, then "\n".join of the parts that have text
StreamResponse(parts) ==
    IF Len(parts) > 0 /\ TextTruthy(parts[1])
    THEN Join(S_Newline, SelectSeq(parts, TextTruthy))
    ELSE <<>>

\* The runner's final event: stream yields the is_task_complete event; the run ends.
FinalEvent(t) ==
    /\ turns[t].pc = "running"
    /\ \E parts \in FinalParts(t) :
         turns' = [turns EXCEPT ![t].flags = Append(@, TRUE),
                                ![t].content = StreamResponse(parts),
                                ![t].pc = "done"]
    /\ UNCHANGED <<remote_agent_connections, cards, agents, initPc, sessions, createCalls,
                   lastCall, requests, uuidCounter, vcall, firstCall, probes>>

\* run_async raises (the model call fails): stream has no handler, the exception
\* leaves the generator.
RunnerRaises(t) ==
    /\ turns[t].pc = "running"
    /\ turns' = [turns EXCEPT ![t].pc = "raised"]
    /\ UNCHANGED <<remote_agent_connections, cards, agents, initPc, sessions, createCalls,
                   lastCall, requests, uuidCounter, vcall, firstCall, probes>>

---------------------------------------------------------------------------
(* Specifications *)

Init ==
    /\ remote_agent_connections = <<>>
    /\ cards = <<>>
    /\ agents = S_Empty
    /\ initPc = [phase |-> "probing", idx |-> 1, pending |-> FALSE]
    /\ probes = <<>>
    /\ firstCall = NoCall
    /\ sessions = [s \in SessionIds |-> NoSession]
    /\ createCalls = [s \in SessionIds |-> 0]
    /\ turns = [t \in Turns |-> IdleTurn]
    /\ lastCall = NoCall
    /\ requests = <<>>
    /\ uuidCounter = 0
    /\ vcall = VcallIdle

\* names the endpoints declare, names the model asks for and what the remote agent
\* and the verification backend do, in the specification of whole turns
TurnCardNames == {S_Invoices_Agent}
TurnRequestedNames == {S_Invoices_Agent, S_Weather}
TextA == <<"A">>
TextB == <<"B">>
S_Answer ==
    << "Y", "o", "u", " ", "n", "e", "e", "d", " ", "a", " ", "c", "e", "r", "t", "i", "f", "i", "c",
       "a", "t", "e", " ", "o", "f", " ", "o", "r", "i", "g", "i", "n", "." >>
ArtifactText(s) == <<[ptype |-> "dict", text |-> s, data |-> "absent", kind |-> "text"]>>
TurnOutcomes ==
    { RaiseOutcome, TaskOutcome([EmptyResult EXCEPT !.artifacts = <<ArtifactText(S_Answer)>>]) }
VerdictObject(rel, safe, issues) ==
    [ is_relevant |-> rel, is_safe |-> safe, risk_level |-> IF safe = "true" THEN "none" ELSE "high",
      detected_issues |-> issues, explanation |-> "Brief explanation" ]
TurnBackends ==
    { [kind |-> "unreachable", obj |-> EmptyObject],
      [kind |-> "object", obj |-> VerdictObject("true", "true", <<>>)],
      [kind |-> "object", obj |-> VerdictObject("true", "false", <<S_Fraud>>)],
      [kind |-> "object", obj |-> VerdictObject("false", "true", <<>>)] }

Next ==
    \/ \E i \in 1..NumAddresses : StartProbe(i)
    \/ FinishProbe(TurnCardNames)
    \/ FinishInit
    \/ StandaloneFallback
    \/ \E t \in Turns :
         \/ GetSession(t, SessionIds)
         \/ CreateSession(t)
         \/ ToolSendMessage(t, TurnRequestedNames, TurnOutcomes)
         \/ ToolVerifyResponse(t, TurnBackends)
         \/ FinalEvent(t)
         \/ RunnerRaises(t)

\* Discovery, then concurrent turns of stream with the tool calls of each
Spec == Init /\ [][Next]_vars

\* Calls of verify_response alone, on every backend outcome
SpecVerify == Init /\ [][VerifyResponseCall]_vars

\* names the endpoints declare, names asked for and remote outcomes, in the
\* specification of delegations
DelegateCardNames == {S_Invoices_Agent, S_Invoices, S_Imports_Agent}
RequestedNames ==
    {S_Invoices_Agent, S_InvoiceBot, S_Invoices, S_invoices_agent, S_Imports_Agent,
     S_Weather, S_Empty}
DataPart == <<[ptype |-> "dict", text |-> NoText, data |-> "{k: 1}", kind |-> "data"]>>
RemoteOutcomes ==
    { RaiseOutcome, ErrorEnvelopeOutcome, NotTaskOutcome,
      TaskOutcome(EmptyResult),
      TaskOutcome([EmptyResult EXCEPT !.artifacts = <<ArtifactText(TextA)>>]),
      TaskOutcome([EmptyResult EXCEPT !.artifacts = <<ArtifactText(TextA)>>, !.text = TextB]),
      TaskOutcome([EmptyResult EXCEPT !.artifacts = <<DataPart>>, !.status_parts = <<TextB, NoText>>]),
      TaskOutcome([EmptyResult EXCEPT !.messages = <<TextB, TextA>>]) }

NextDelegate ==
    \/ \E i \in 1..NumAddresses : StartProbe(i)
    \/ FinishProbe(DelegateCardNames)
    \/ FinishInit
    \/ StandaloneFallback
    \/ GetSession(1, {"s1"})
    \/ CreateSession(1)
    \/ ToolSendMessage(1, RequestedNames, RemoteOutcomes)

\* Discovery, then one turn whose tool calls are send_message calls, over every
\* requested name and remote outcome
SpecDelegate == Init /\ [][NextDelegate]_vars

---------------------------------------------------------------------------
(* Claims *)

\* C1: an answer that send_message obtained from a remote agent reaches the final
\* (is_task_complete) event of a turn only if verify_response was called on that
\* answer earlier in the same turn.
C1_VerifiedBeforeFinal ==
    \A t \in Turns : \A a \in turns[t].got :
        (turns[t].pc = "done" /\ IsSubstr(a, turns[t].content)) => a \in turns[t].verified

\* C2: verify_response never raises to its caller, and when the generation call
\* fails or its output is no JSON object it returns the fail-open verdict:
\* is_relevant and is_safe true, risk_level none, status relevant.
C2_FailOpenNeverRaises ==
    vcall.pc = "returned" =>
        /\ ~vcall.result.raised
        /\ vcall.backend.kind # "object" =>
             /\ vcall.result.verification.is_relevant = "true"
             /\ vcall.result.verification.is_safe = "true"
             /\ vcall.result.verification.risk_level = "none"
             /\ vcall.result.verification.status = "relevant"

\* a call returned although the generation backend could not be reached
C2_Witness ==
    /\ vcall.pc = "returned"
    /\ vcall.backend.kind = "unreachable"
    /\ ~vcall.result.raised

\* C3: in every verdict verify_response returns, status is "relevant" exactly when
\* is_relevant and is_safe are both true, and "security_risk" otherwise.
C3_StatusIffRelevantAndSafe ==
    (vcall.pc = "returned" /\ ~vcall.result.raised) =>
        LET v == vcall.result.verification IN
        /\ v.status \in {"relevant", "security_risk"}
        /\ v.status = "relevant" <=> (v.is_relevant = "true" /\ v.is_safe = "true")

\* C4: when the verdict for an agent answer has is_safe = false, the turn's final
\* output is the security alert text, which lists every detected issue and does
\* not contain the answer.
C4_UnsafeEndsAlerted ==
    \A t \in Turns :
        LET a == turns[t].verdict.answer
            v == turns[t].verdict.verification
        IN (turns[t].pc = "done" /\ a \in turns[t].got /\ v.is_safe = "false") =>
               /\ turns[t].content = create_security_alert(v.detected_issues)
               /\ \A i \in 1..Len(v.detected_issues) :
                      IsSubstr(v.detected_issues[i], turns[t].content)
               /\ ~IsSubstr(a, turns[t].content)

\* C5: a verdict that is safe but not relevant is no security failure: it is not
\* a security alert, its status is not security_risk, and it carries the warning
\* marker under which the answer is still shown.
C5_IrrelevantIsNoSecurityRisk ==
    (vcall.pc = "returned" /\ vcall.backend.kind = "object"
       /\ vcall.backend.obj.is_safe = "true" /\ vcall.backend.obj.is_relevant = "false") =>
        LET v == vcall.result.verification IN
        /\ ~v.security_alert
        /\ v.emoji = EmojiWarning
        /\ v.status # "security_risk"

\* C6: the events of a stream call that has ended hold exactly one
\* is_task_complete event, and it is the last one.
C6_ExactlyOneCompleteLast ==
    \A t \in Turns :
        turns[t].pc \in {"done", "raised"} =>
            LET f == turns[t].flags IN
            /\ Len(f) > 0
            /\ f[Len(f)]
            /\ \A i \in 1..(Len(f) - 1) : ~f[i]

\* C7: create_session is executed at most once for a session id, whatever the
\* interleaving of the stream calls.
C7_CreateAtMostOnce ==
    \A s \in SessionIds : createCalls[s] <= 1

\* C8: any two requests sent in the same session carry the same taskId and the
\* same contextId, and any two requests carry different messageIds.
C8_IdsReusedPerSession ==
    \A i, j \in 1..Len(requests) :
        /\ requests[i].session = requests[j].session =>
             /\ requests[i].taskId = requests[j].taskId
             /\ requests[i].contextId = requests[j].contextId
        /\ i # j => requests[i].messageId # requests[j].messageId

\* C9: a requested name that is a key of the directory selects that key's own
\* connection, also when other keys fuzzily match the name.
C9_ExactMatchFirst ==
    HasKey(remote_agent_connections, lastCall.requested) =>
        /\ lastCall.sent
        /\ lastCall.resolved = lastCall.requested
        /\ lastCall.request.agent = lastCall.requested
        /\ lastCall.request.url = Lookup(remote_agent_connections, lastCall.requested).url

\* a key was requested by its exact name while an earlier key fuzzily matches it
C9_Witness ==
    /\ lastCall.sent
    /\ HasKey(remote_agent_connections, lastCall.requested)
    /\ \E i, j \in 1..Len(remote_agent_connections) :
         /\ i < j
         /\ remote_agent_connections[j].name = lastCall.requested
         /\ FuzzyMatch(lastCall.requested, remote_agent_connections[i].name)

\* C10 as stated: with only "Invoices_Agent" in the directory, a request for
\* "InvoiceBot" is resolved to "Invoices_Agent" and the request is sent.
C10_InvoiceBotDelegated ==
    (Keys(remote_agent_connections) = <<S_Invoices_Agent>> /\ lastCall.requested = S_InvoiceBot) =>
        /\ lastCall.found
        /\ lastCall.resolved = S_Invoices_Agent
        /\ lastCall.sent

\* C10 as amended: with only "Invoices_Agent" in the directory, "InvoiceBot" matches
\* neither exactly nor by containment in either direction, so send_message returns
\* the not-found error that lists "Invoices_Agent" and sends nothing; a request
\* for "Invoices", which "invoices_agent" contains, is resolved to
\* "Invoices_Agent" and sent.
C10_InvoiceBotNotFound ==
    Keys(remote_agent_connections) = <<S_Invoices_Agent>> =>
        /\ lastCall.requested = S_InvoiceBot =>
             /\ ~lastCall.found
             /\ ~lastCall.sent
             /\ lastCall.result = NotFoundError(S_InvoiceBot, remote_agent_connections)
             /\ IsSubstr(S_Invoices_Agent, lastCall.result)
        /\ lastCall.requested = S_Invoices =>
             /\ lastCall.found
             /\ lastCall.resolved = S_Invoices_Agent
             /\ lastCall.sent

\* "InvoiceBot" was requested with only "Invoices_Agent" in the directory
C10_Witness ==
    /\ Keys(remote_agent_connections) = <<S_Invoices_Agent>>
    /\ lastCall.requested = S_InvoiceBot
    /\ lastCall.result # S_Empty
    /\ Len(requests) = 0

\* C11: when the requested name matches no key exactly and none fuzzily,
\* send_message returns the error string that names every key and sends nothing;
\* and whenever a request is sent, its target is a key that the requested name
\* matches exactly or fuzzily.
C11_NotFoundOrMatched ==
    LET d == remote_agent_connections
        req == lastCall.requested
        noMatch == /\ ~HasKey(d, req)
                   /\ \A i \in 1..Len(d) : ~FuzzyMatch(req, d[i].name)
    IN
    /\ (lastCall # NoCall /\ noMatch) =>
          /\ ~lastCall.sent
          /\ ~lastCall.raised
          /\ lastCall.request = NoRequest
          /\ lastCall.result =
                S_NotFoundHead \o req \o S_NotFoundMid \o Join(S_CommaSpace, Keys(d))
          /\ \A i \in 1..Len(d) : IsSubstr(d[i].name, lastCall.result)
    /\ lastCall.sent =>
          /\ HasKey(d, lastCall.request.agent)
          /\ \/ lastCall.request.agent = req
             \/ FuzzyMatch(req, lastCall.request.agent)
    /\ lastCall # NoCall => (lastCall.sent <=> ~noMatch)
    /\ \A k \in 1..Len(requests) : HasKey(d, requests[k].agent)

\* a name that matches none of the keys of a directory that is not empty was asked for
C11_Witness ==
    /\ lastCall # NoCall
    /\ ~lastCall.found
    /\ Len(remote_agent_connections) > 0
    /\ IsSubstr(Keys(remote_agent_connections)[1], lastCall.result)

---------------------------------------------------------------------------
(* send_message (agent.py): extraction over wide payloads *)

TextC == <<"C">>
TextD == <<"D">>

\* artifact parts: a text part, a text part whose text is empty, a data part, a
\* part with neither, and parts that are plain strings
ExtractParts ==
    { [ptype |-> "dict", text |-> TextA, data |-> "absent", kind |-> "text"],
      [ptype |-> "dict", text |-> S_Empty, data |-> "absent", kind |-> "text"],
      [ptype |-> "dict", text |-> NoText, data |-> "{k: 1}", kind |-> "data"],
      [ptype |-> "dict", text |-> NoText, data |-> "absent", kind |-> "file"],
      [ptype |-> "str", text |-> TextC, data |-> "absent", kind |-> "absent"],
      [ptype |-> "str", text |-> S_Empty, data |-> "absent", kind |-> "absent"] }

\* one artifact: its list of parts
ExtractArtifacts ==
    {<<>>} \cup { <<p>> : p \in ExtractParts }
           \cup { <<p, q>> : p, q \in ExtractParts }

ExtractArtifactLists ==
    {<<>>} \cup { <<a>> : a \in ExtractArtifacts }
           \cup { <<a, b>> : a, b \in { <<>>, ArtifactText(TextA), ArtifactText(TextC) } }

ExtractTextLists == { <<>>, <<TextD>>, <<NoText, TextD>>, <<TextD, S_Empty, TextB>> }

ExtractOutcomes ==
    { TaskOutcome([artifacts |-> as, text |-> tx, messages |-> ms, status_parts |-> sp]) :
        as \in ExtractArtifactLists, tx \in {NoText, S_Empty, TextB},
        ms \in ExtractTextLists, sp \in ExtractTextLists }

\* the first send_message call of a turn
FirstSendMessage(t, names, outcomes) ==
    /\ turns[t].calls = 0
    /\ ToolSendMessage(t, names, outcomes)

NextExtract ==
    \/ \E i \in 1..NumAddresses : StartProbe(i)
    \/ FinishProbe({S_Invoices_Agent})
    \/ FinishInit
    \/ StandaloneFallback
    \/ GetSession(1, {"s1"})
    \/ CreateSession(1)
    \/ FirstSendMessage(1, {S_Invoices_Agent}, ExtractOutcomes)

\* Discovery of one agent, then the first send_message call of a turn, over every
\* payload shape
SpecExtract == Init /\ [][NextExtract]_vars

\* C12: the extracted text is the newline-joined list of the artifact-part
\* fragments (artifact by artifact, part by part), then result.text, then the
\* messages' texts, then the status message parts' texts; artifacts=[{parts:
\* [{text: "A"}]}] with result.text = "B" gives "A\nB".
C12_OrderPreserving ==
    LET p == lastCall.payload
        Truthy(seq) == SelectSeq(seq, TextTruthy)
        RECURSIVE Flat(_)
        Flat(ss) == IF Len(ss) = 0 THEN <<>> ELSE ss[1] \o Flat(Tail(ss))
        PerPart(a) == Flat([j \in 1..Len(a) |-> PartFragments(a[j])])
        fromArtifacts == Flat([i \in 1..Len(p.artifacts) |-> PerPart(p.artifacts[i])])
        all == fromArtifacts \o Truthy(<<p.text>>) \o Truthy(p.messages) \o Truthy(p.status_parts)
    IN (lastCall # NoCall /\ lastCall.found /\ lastCall.outcome = "task") =>
          /\ Len(all) > 0 => lastCall.result = Join(S_Newline, all)
          /\ ( /\ p.artifacts = << <<[ptype |-> "dict", text |-> <<"A">>, data |-> "absent", kind |-> "text"]>> >>
               /\ p.text = <<"B">> /\ p.messages = <<>> /\ p.status_parts = <<>> )
             => lastCall.result = <<"A", "\n", "B">>

\* all four places held text: two artifacts, result.text, messages and status parts
C12_Witness ==
    /\ lastCall # NoCall /\ lastCall.found /\ lastCall.outcome = "task"
    /\ lastCall.payload.artifacts = <<ArtifactText(TextA), ArtifactText(TextC)>>
    /\ lastCall.payload.text = TextB
    /\ lastCall.payload.messages = <<TextD, S_Empty, TextB>>
    /\ lastCall.payload.status_parts = <<NoText, TextD>>
    /\ lastCall.result = <<"A", "\n", "C", "\n", "B", "\n", "D", "\n", "B", "\n", "D">>

\* C13: for every response payload the text send_message extracts is not the
\* empty string, and it is the "No response from agent" sentinel when no
\* fragment was found.
C13_ExtractedNeverEmpty ==
    (lastCall # NoCall /\ lastCall.found /\ lastCall.outcome = "task") =>
        /\ Len(lastCall.result) > 0
        /\ Fragments(lastCall.payload) = <<>> => lastCall.result = S_NoResponse

\* C14: a delegation whose transport raises, or whose response is no success
\* envelope carrying a task, does not raise out of send_message: the call returns
\* the formatted error string, the turn goes on, and a further send_message call
\* can follow.
C14_ErrorsAreReturned ==
    (lastCall # NoCall /\ lastCall.found
        /\ lastCall.outcome \in {"raise", "error_envelope", "not_task"}) =>
        /\ ~lastCall.raised
        /\ turns[1].pc = "running"
        /\ lastCall.result =
              IF lastCall.outcome = "raise"
              THEN S_ErrorCommunicating \o lastCall.resolved \o S_ColonSpace \o RaiseOutcome.msg
              ELSE S_InvalidResponse \o lastCall.resolved
        /\ ~lastCall.fromAgent
        /\ turns[1].calls < MaxToolCalls =>
              ENABLED ToolSendMessage(1, RequestedNames, RemoteOutcomes)

\* the transport raised in the first call of the turn, the call returned the
\* error string, and another call can follow
C14_Witness ==
    /\ lastCall # NoCall /\ lastCall.sent /\ lastCall.outcome = "raise"
    /\ ~lastCall.raised
    /\ IsSubstr(RaiseOutcome.msg, lastCall.result)
    /\ turns[1].calls = 1
    /\ ENABLED ToolSendMessage(1, RequestedNames, RemoteOutcomes)

\* C15: when discovery has ended, every endpoint whose probe failed is absent
\* from the directory and every endpoint whose card was fetched is registered
\* under the name its card declares; discovery itself never raises.
C15_PartialDiscovery ==
    LET d == remote_agent_connections IN
    (initPc.phase = "ready" /\ Len(probes) > 0) =>
        /\ Len(probes) = NumAddresses
        /\ \A k \in 1..Len(probes) :
             IF probes[k].kind = "card"
             THEN \E i \in 1..Len(d) :
                     d[i].name = probes[k].name /\ d[i].url = probes[k].address
             ELSE \A i \in 1..Len(d) : d[i].url # probes[k].address

\* C16: the probes run concurrently: while the probe of an endpoint is pending,
\* the probe of every later endpoint can start.
C16_ProbesConcurrent ==
    \A i, j \in 1..NumAddresses :
        (i < j /\ initPc.phase = "probing" /\ initPc.pending /\ initPc.idx = i)
            => ENABLED StartProbe(j)

\* C17: with no agent in the directory the system is started, and every
\* send_message call, whatever name it asks for, returns the agent-not-found
\* error and sends no request.
C17_ZeroAgentsAllNotFound ==
    (initPc.phase = "ready" /\ Len(remote_agent_connections) = 0) =>
        /\ turns[1].pc = "idle" => ENABLED GetSession(1, {"s1"})
        /\ turns[1].pc # "raised"
        /\ requests = <<>>
        /\ lastCall # NoCall =>
              /\ ~lastCall.found /\ ~lastCall.sent /\ ~lastCall.raised
              /\ lastCall.request = NoRequest
              /\ lastCall.result = S_NotFoundHead \o lastCall.requested \o S_NotFoundMid

\* the empty name was asked for while the directory was empty
C17_Witness ==
    /\ initPc.phase = "ready" /\ Len(remote_agent_connections) = 0
    /\ Len(probes) = NumAddresses
    /\ lastCall # NoCall /\ lastCall.requested = S_Empty
    /\ ~lastCall.found
    /\ turns[1].calls = 2

---------------------------------------------------------------------------
(* root_instruction (agent.py): the block that holds the agent summary *)

S_AvailableOpen ==
    << "<", "A", "v", "a", "i", "l", "a", "b", "l", "e", " ", "A", "g", "e", "n", "t", "s", ">",
       "\n", " ", " ", " ", " ", " ", " ", " ", " " >>
S_AvailableClose ==
    << "\n", " ", " ", " ", " ", " ", " ", " ", " ", "<", "/", "A", "v", "a", "i", "l", "a", "b",
       "l", "e", " ", "A", "g", "e", "n", "t", "s", ">", "\n", " ", " ", " ", " ", " ", " ", " ", " " >>

\* the end of the f-string: <Available Agents> {self.agents} </Available Agents>
root_instruction == S_AvailableOpen \o agents \o S_AvailableClose

\* C18: whenever a turn runs (the runner asks for the instruction before each
\* model call), the summary in it is not empty: with no registered card it is one
\* of the explicit markers, otherwise it is one line per card holding the card's
\* name and description.
C18_SummaryWellFormed ==
    turns[1].pc = "running" =>
        /\ agents # S_Empty
        /\ root_instruction # S_AvailableOpen \o S_AvailableClose
        /\ IF Len(cards) = 0
           THEN agents \in {S_NoAgentsFound, S_StandaloneMode, S_EventLoopConflict}
           ELSE /\ \A i \in 1..Len(cards) :
                     /\ IsSubstr(S_JsonNameHead \o cards[i].name \o S_JsonDescHead, agents)
                     /\ IsSubstr(cards[i].description, agents)
                /\ Len(SelectSeq(agents, LAMBDA ch : ch = "\n")) = Len(cards) - 1
                /\ ~IsSubstr(S_NoAgentsFound, agents)

\* a turn runs after a discovery in which every probe failed
C18_Witness ==
    /\ turns[1].pc = "running"
    /\ Len(probes) = NumAddresses
    /\ Len(cards) = 0
    /\ agents = S_NoAgentsFound
    /\ IsSubstr(S_NoAgentsFound, root_instruction)

\* C19: what a fail-open call of verify_response returns and prints, taken
\* together, differs from what every call does whose backend verdict was parsed
\* and classifies the answer as relevant and safe.
C19_FailOpenDistinguishable ==
    (vcall.pc = "returned" /\ ~vcall.result.raised
        /\ ExceptionInTry(vcall.backend) # "none") =>
        /\ vcall.result.printed # <<>>
        /\ \A o \in BackendObjects :
             LET genuine == verify_response([kind |-> "object", obj |-> o]) IN
             (genuine.verification.status = "relevant") =>
                 <<genuine.status, genuine.verification, genuine.printed>>
                    # <<vcall.result.status, vcall.result.verification, vcall.result.printed>>

\* a fail-open call whose returned dict equals the dict of a parsed verdict
C19_Witness ==
    /\ vcall.pc = "returned"
    /\ vcall.backend.kind = "bad_json"
    /\ vcall.result.verification = FailOpenVerdict
    /\ vcall.result.printed = <<"Verification error", "JSONDecodeError">>
    /\ \E o \in BackendObjects :
         verify_response([kind |-> "object", obj |-> o]).verification
            = vcall.result.verification

---------------------------------------------------------------------------
(* send_message (agent.py): the same input twice *)

IdemCardNames == {S_Invoices_Agent, S_Imports_Agent}
IdemRequestedNames == {S_Invoices_Agent, S_Empty, S_Weather}
IdemOutcomes ==
    { TaskOutcome(EmptyResult),
      TaskOutcome([EmptyResult EXCEPT !.artifacts = <<ArtifactText(TextA)>>, !.text = TextB]) }

NextIdem ==
    \/ \E i \in 1..NumAddresses : StartProbe(i)
    \/ FinishProbe(IdemCardNames)
    \/ FinishInit
    \/ StandaloneFallback
    \/ GetSession(1, {"s1"})
    \/ CreateSession(1)
    \/ LoggedSendMessage(1, IdemRequestedNames, IdemOutcomes)

\* Discovery, then a turn of send_message calls whose first call is kept
SpecIdem == Init /\ [][NextIdem]_vars

\* C20: two send_message calls that ask for the same name resolve to the same
\* agent, or return the same not-found error, and two calls that get the same
\* response payload extract the same text, whatever was called in between.
C20_Idempotent ==
    (firstCall # NoCall /\ lastCall # NoCall) =>
        /\ firstCall.requested = lastCall.requested =>
              /\ firstCall.found = lastCall.found
              /\ firstCall.resolved = lastCall.resolved
              /\ firstCall.request.agent = lastCall.request.agent
              /\ firstCall.request.url = lastCall.request.url
              /\ ~firstCall.found => firstCall.result = lastCall.result
        /\ (firstCall.fromAgent /\ lastCall.fromAgent
              /\ firstCall.payload = lastCall.payload) =>
              firstCall.result = lastCall.result

\* the first and the third call asked for the empty name and got the same payload;
\* the call between them asked for a name that matches nothing
C20_Witness ==
    /\ turns[1].calls = 3
    /\ Len(requests) = 2
    /\ Len(remote_agent_connections) = 2
    /\ firstCall.requested = S_Empty /\ lastCall.requested = S_Empty
    /\ firstCall.sent /\ lastCall.sent
    /\ firstCall.payload = lastCall.payload
    /\ firstCall.payload.text = TextB
    /\ lastCall.result = <<"A", "\n", "B">>

---------------------------------------------------------------------------
(* The directory after discovery *)

FrameCardNames == {S_Invoices_Agent, S_Imports_Agent}
FrameRequestedNames == {S_Invoices, S_Weather}
FrameOutcomes ==
    { RaiseOutcome, ErrorEnvelopeOutcome, NotTaskOutcome,
      TaskOutcome([EmptyResult EXCEPT !.artifacts = <<ArtifactText(S_Answer)>>]) }

NextFrame ==
    \/ \E i \in 1..NumAddresses : StartProbe(i)
    \/ FinishProbe(FrameCardNames)
    \/ FinishInit
    \/ StandaloneFallback
    \/ GetSession(1, {"s1"})
    \/ CreateSession(1)
    \/ ToolSendMessage(1, FrameRequestedNames, FrameOutcomes)
    \/ ToolVerifyResponse(1, TurnBackends)
    \/ FinalEvent(1)
    \/ RunnerRaises(1)

\* Discovery, then one turn of stream with send_message calls on every path
\* (answer, not found, protocol error, exception) and verify_response calls
SpecFrame == Init /\ [][NextFrame]_vars

\* C21: once discovery has finished, no step of stream, send_message or
\* verify_response adds, removes or replaces an entry of remote_agent_connections
\* or of cards.
C21_DirectoryReadOnly ==
    [][initPc.phase = "ready" =>
          /\ remote_agent_connections' = remote_agent_connections
          /\ cards' = cards]_vars

\* a turn ended after a fuzzy-resolved send_message call and a verify_response
\* call, and the directory still holds the two cards discovery registered
C21_Witness ==
    /\ initPc.phase = "ready"
    /\ turns[1].pc = "done"
    /\ lastCall # NoCall /\ lastCall.sent /\ lastCall.requested # lastCall.resolved
    /\ turns[1].verified # {}
    /\ Len(remote_agent_connections) = 2 /\ Len(cards) = 2
    /\ \A k \in 1..2 :
         /\ remote_agent_connections[k].name = probes[k].name
         /\ remote_agent_connections[k].url = probes[k].address
         /\ cards[k] = remote_agent_connections[k]

\* C22: in every verdict verify_response returns, security_alert is true exactly
\* when the emoji is the alert marker, and the emoji is the verified marker
\* exactly when status is "relevant".
C22_CompatFieldsAgree ==
    (vcall.pc = "returned" /\ ~vcall.result.raised) =>
        LET v == vcall.result.verification IN
        /\ v.security_alert <=> (v.emoji = EmojiAlert)
        /\ (v.emoji = EmojiVerified) <=> (v.status = "relevant")

====
